---- MODULE Spec2Model ----
(***************************************************************************)
(* Model of FramesGen: src/llm_service.py (LLMService), src/main.py        *)
(* (process_prompt) and src/image_service.py (ImageGenerationService).     *)
(*                                                                         *)
(* A Python str is a sequence of code points.  The str methods the code    *)
(* uses (strip, split, startswith, replace, isalnum, int, str) are         *)
(* operators on such sequences.  A FrameDescription is a record            *)
(* [description, frame_number].                                            *)
(***************************************************************************)
EXTENDS Integers, Sequences, FiniteSets

VARIABLES
    pc,              \* program point of the running operation
    op,              \* the operation the caller invoked
    prompt,          \* process_prompt / generate_frame_sequence argument
    num_frames,      \* process_prompt / generate_frame_sequence argument
    draft,           \* local `frames` of generate_frame_sequence (loose pass)
    frames,          \* value generate returns; argument of refine and of the image batch
    response,        \* local `response` of the method that is running
    refined_frames,  \* value refine_frame_sequence returns
    calls,           \* the completion calls issued so far, in order
    api_key,         \* ImageGenerationService.api_key is set
    i,               \* loop index of generate_frame_images
    image_paths,     \* local `image_paths` of generate_frame_images
    renders,         \* the generate_image calls made so far, in order
    clock            \* wall clock in seconds (save_image timestamp)

vars == <<pc, op, prompt, num_frames, draft, frames, response, refined_frames, calls,
          api_key, i, image_paths, renders, clock>>

llm_vars == <<prompt, num_frames, draft, frames, response, refined_frames, calls>>
image_vars == <<api_key, i, image_paths, renders, clock>>

(***************************************************************************)
(* Bounds of the model.                                                    *)
(***************************************************************************)
\* largest num_frames a caller asks for
MaxN == 3
\* largest number of lines in a generated text
MaxLines == 3
\* largest length of a frame list handed directly to refine or to the image batch
MaxFrames == 2

(***************************************************************************)
(* Characters.  A Python str is a sequence of code points (integers in     *)
(* 0..1114111), so that the character classes of str.strip, int and        *)
(* str.isalnum are tables over code points.  The literals of the source    *)
(* are written with py_str, which maps a sequence of ASCII characters to   *)
(* their code points.                                                      *)
(***************************************************************************)
\* the printable ASCII characters with the code points 32..95 and 97..126,
\* in order
PrintableLow ==
    << " ", "!", "\"", "#", "$", "%", "&", "'", "(", ")", "*", "+", ",", "-", ".", "/",
       "0", "1", "2", "3", "4", "5", "6", "7", "8", "9", ":", ";", "<", "=", ">", "?",
       "@", "A", "B", "C", "D", "E", "F", "G", "H", "I", "J", "K", "L", "M", "N", "O",
       "P", "Q", "R", "S", "T", "U", "V", "W", "X", "Y", "Z", "[", "\\", "]", "^", "_" >>
PrintableHigh ==
    << "a", "b", "c", "d", "e", "f", "g", "h", "i", "j", "k", "l", "m", "n", "o", "p",
       "q", "r", "s", "t", "u", "v", "w", "x", "y", "z", "{", "|", "}", "~" >>

\* ord(c) for an ASCII character c
ord(c) ==
    CASE c = "\t" -> 9
      [] c = "\n" -> 10
      [] c = "\f" -> 12
      [] c = "\r" -> 13
      [] \E k \in 1..Len(PrintableLow) : PrintableLow[k] = c ->
             31 + (CHOOSE k \in 1..Len(PrintableLow) : PrintableLow[k] = c)
      [] OTHER -> 96 + (CHOOSE k \in 1..Len(PrintableHigh) : PrintableHigh[k] = c)

\* a str literal of the source
py_str(s) == [k \in 1..Len(s) |-> ord(s[k])]

Newline == ord("\n")
Space == ord(" ")
Colon == ord(":")
Dot == ord(".")
Underscore == ord("_")
Minus == ord("-")
Plus == ord("+")
Slash == ord("/")
Zero == ord("0")

(***************************************************************************)
(* Python str and int primitives.                                          *)
(***************************************************************************)
\* the characters str.strip() removes: those with str.isspace()
Whitespace ==
    {9, 10, 11, 12, 13, 28, 29, 30, 31, 32, 133, 160, 5760}
        \cup (8192..8202) \cup {8232, 8233, 8239, 8287, 12288}

RECURSIVE lstrip_chars(_, _)
lstrip_chars(s, W) == IF s # <<>> /\ Head(s) \in W THEN lstrip_chars(Tail(s), W) ELSE s

RECURSIVE rstrip_chars(_, _)
rstrip_chars(s, W) == IF s # <<>> /\ s[Len(s)] \in W
                      THEN rstrip_chars(SubSeq(s, 1, Len(s) - 1), W) ELSE s

\* s.lstrip(), s.rstrip()
lstrip(s) == lstrip_chars(s, Whitespace)
rstrip(s) == rstrip_chars(s, Whitespace)

\* s.strip()
strip(s) == rstrip(lstrip(s))

\* s.find(c) for a one-character c, 1-based; 0 when c does not occur
RECURSIVE find_from(_, _, _)
find_from(s, c, k) == IF k > Len(s) THEN 0
                      ELSE IF s[k] = c THEN k ELSE find_from(s, c, k + 1)
find(s, c) == find_from(s, c, 1)

\* c in s
contains(s, c) == find(s, c) # 0

\* s.startswith(p)
startswith(s, p) == Len(p) <= Len(s) /\ SubSeq(s, 1, Len(p)) = p

\* s.split(sep) for a one-character sep
RECURSIVE split(_, _)
split(s, sep) == LET k == find(s, sep) IN
                 IF k = 0 THEN <<s>>
                 ELSE <<SubSeq(s, 1, k - 1)>> \o split(SubSeq(s, k + 1, Len(s)), sep)

\* s.split(sep, 1)
split1(s, sep) == LET k == find(s, sep) IN
                  IF k = 0 THEN <<s>>
                  ELSE <<SubSeq(s, 1, k - 1), SubSeq(s, k + 1, Len(s))>>

\* xs[-1]
last(xs) == xs[Len(xs)]

\* s.replace(old, new), old non-empty
RECURSIVE replace(_, _, _)
replace(s, old, new) ==
    IF Len(s) < Len(old) THEN s
    ELSE IF startswith(s, old)
         THEN new \o replace(SubSeq(s, Len(old) + 1, Len(s)), old, new)
         ELSE <<Head(s)>> \o replace(Tail(s), old, new)

\* "\n".join(xs)
RECURSIVE join_lines(_)
join_lines(xs) == IF xs = <<>> THEN <<>>
                  ELSE IF Len(xs) = 1 THEN xs[1]
                  ELSE xs[1] \o <<Newline>> \o join_lines(Tail(xs))

RECURSIVE nat_str(_)
nat_str(n) == IF n < 10 THEN <<Zero + n>>
              ELSE nat_str(n \div 10) \o <<Zero + (n % 10)>>

\* str(n), f"{n}"
str(n) == IF n < 0 THEN <<Minus>> \o nat_str(-n) ELSE nat_str(n)

\* the code point of the digit zero of every decimal digit system int() reads
\* (Unicode category Nd, Unicode 14); its digits 0..9 follow it in order
DecimalZeros ==
    { 48, 1632, 1776, 1984, 2406, 2534, 2662, 2790, 2918, 3046, 3174, 3302, 3430, 3558,
      3664, 3792, 3872, 4160, 4240, 6112, 6160, 6470, 6608, 6784, 6800, 6992, 7088,
      7232, 7248, 42528, 43216, 43264, 43472, 43504, 43600, 44016, 65296, 66720, 68912,
      69734, 69872, 69942, 70096, 70384, 70736, 70864, 71248, 71360, 71472, 71904,
      72016, 72784, 73040, 73120, 92768, 92864, 93008, 120782, 120792, 120802, 120812,
      120822, 123200, 123632, 125264, 130032 }

\* c is a decimal digit for int()
isdecimal(c) == \E z \in DecimalZeros : z <= c /\ c <= z + 9

digit_value(c) == c - (CHOOSE z \in DecimalZeros : z <= c /\ c <= z + 9)

RECURSIVE digits_value(_, _)
digits_value(s, acc) ==
    IF s = <<>> THEN acc
    ELSE IF Head(s) = Underscore THEN digits_value(Tail(s), acc)
    ELSE digits_value(Tail(s), 10 * acc + digit_value(Head(s)))

\* sys.int_max_str_digits: int() of more digits raises ValueError
int_max_str_digits == 4300

\* the digit part of an int literal: decimal digits, single underscores
\* between them, no more digits than the limit
is_int_body(s) ==
    /\ s # <<>>
    /\ \A k \in 1..Len(s) : isdecimal(s[k]) \/ s[k] = Underscore
    /\ s[1] # Underscore /\ s[Len(s)] # Underscore
    /\ \A k \in 1..(Len(s) - 1) : ~(s[k] = Underscore /\ s[k + 1] = Underscore)
    /\ Cardinality({ k \in 1..Len(s) : s[k] # Underscore }) <= int_max_str_digits

\* the whitespace int() skips at both ends: that of str.strip() without the
\* separators 28..31
IntWhitespace == Whitespace \ (28..31)

\* int(s): [ok |-> FALSE] stands for ValueError
int(s) ==
    LET t == rstrip_chars(lstrip_chars(s, IntWhitespace), IntWhitespace)
        signed == t # <<>> /\ Head(t) \in {Plus, Minus}
        body == IF signed THEN Tail(t) ELSE t
    IN  IF is_int_body(body)
        THEN [ok |-> TRUE,
              value |-> IF signed /\ Head(t) = Minus THEN -digits_value(body, 0)
                        ELSE digits_value(body, 0)]
        ELSE [ok |-> FALSE, value |-> 0]

(***************************************************************************)
(* src/models.py                                                           *)
(***************************************************************************)
FrameDescription(description, frame_number) ==
    [description |-> description, frame_number |-> frame_number]

(***************************************************************************)
(* Literals of src/llm_service.py                                          *)
(***************************************************************************)
FrameWord == py_str(<<"F", "r", "a", "m", "e">>)

UnexpectedFormat ==
    py_str(<<"E", "r", "r", "o", "r", ":", " ", "U", "n", "e", "x", "p", "e", "c", "t", "e", "d",
      " ", "r", "e", "s", "p", "o", "n", "s", "e", " ", "f", "o", "r", "m", "a", "t">>)

ContinuationPrefix ==
    py_str(<<"C", "o", "n", "t", "i", "n", "u", "a", "t", "i", "o", "n", " ", "o", "f", " ",
      "t", "h", "e", " ", "s", "c", "e", "n", "e", " ", "f", "r", "o", "m", " ">>)

\* The text _format_messages builds from a system and a user message, the
\* two contents shortened to S and U
format_messages ==
    py_str(<<"<", "s", ">", "[", "I", "N", "S", "T", "]", " ", "S", " ", "[", "/", "I", "N",
      "S", "T", "]", "\n", "\n", "U", " ", "[", "/", "I", "N", "S", "T", "]">>)

(***************************************************************************)
(* Inputs: what the completion service can answer.  A generated text is up *)
(* to MaxLines lines of LinePool joined by line breaks.                    *)
(***************************************************************************)
LinePool ==
    { FrameWord \o py_str(<<" ", "1", ":", " ", "a">>),           \* Frame 1: a
      FrameWord \o py_str(<<" ", "2", ":", " ", "b", ":", "c">>), \* Frame 2: b:c
      FrameWord \o py_str(<<" ", "x", ":">>),                     \* Frame x:
      py_str(<<" ", "2", ".", " ", "b">>),                        \*  2. b
      <<>> }                                              \* blank line

Completions ==
    { join_lines(ls) : ls \in UNION { [1..n -> LinePool] : n \in 0..MaxLines } }

Prompts == { py_str(<<"c", "a", "t">>) }

\* requests.post outcomes: no answer at all (the request raises), a non-success
\* status, or status 200 with a body that is not JSON, an empty JSON list, a
\* JSON list whose first entry is no object (["text"], [null]), a JSON list or
\* object whose generated_text is no string ([{"generated_text": 5}],
\* {"generated_text": null}), a JSON list whose first entry holds the prompt
\* followed by the completion, or a JSON object holding the completion.
Responses ==
    { [sent |-> FALSE, status_code |-> 0, json |-> "invalid", generated_text |-> <<>>],
      [sent |-> TRUE, status_code |-> 503, json |-> "dict", generated_text |-> <<>>],
      [sent |-> TRUE, status_code |-> 200, json |-> "invalid", generated_text |-> <<>>],
      [sent |-> TRUE, status_code |-> 200, json |-> "empty_list", generated_text |-> <<>>],
      [sent |-> TRUE, status_code |-> 200, json |-> "list_of_non_object",
       generated_text |-> <<>>],
      [sent |-> TRUE, status_code |-> 200, json |-> "list_text_not_str",
       generated_text |-> <<>>],
      [sent |-> TRUE, status_code |-> 200, json |-> "dict_text_not_str",
       generated_text |-> <<>>] }
    \cup { [sent |-> TRUE, status_code |-> 200, json |-> "list",
            generated_text |-> format_messages \o <<Space>> \o c] : c \in Completions }
    \cup { [sent |-> TRUE, status_code |-> 200, json |-> "dict",
            generated_text |-> c] : c \in Completions }

\* the JSON bodies on which lines 40 and 43 call .get or .replace on a value
\* that has no such method
MistypedBodies == {"list_of_non_object", "list_text_not_str", "dict_text_not_str"}

(***************************************************************************)
(* LLMService (src/llm_service.py)                                         *)
(***************************************************************************)
\* call_llm without the status test of lines 33-34
call_llm_any_status(resp) ==
    IF ~resp.sent
    THEN [raised |-> "RequestException", text |-> <<>>]
    ELSE IF resp.json = "invalid"
    THEN [raised |-> "JSONDecodeError", text |-> <<>>]
    ELSE IF resp.json \in MistypedBodies
    THEN [raised |-> "AttributeError", text |-> <<>>]
    ELSE IF resp.json \in {"list", "dict"}
    THEN [raised |-> "none",
          text |-> strip(replace(resp.generated_text, format_messages, <<>>))]
    ELSE [raised |-> "none", text |-> UnexpectedFormat]

\* call_llm: the exception that leaves the call ("none": it returns text)
call_llm(resp) ==
    IF ~resp.sent
    THEN [raised |-> "RequestException", text |-> <<>>]
    ELSE IF resp.status_code # 200
    THEN [raised |-> "ValueError", text |-> <<>>]
    ELSE IF resp.json = "invalid"
    THEN [raised |-> "JSONDecodeError", text |-> <<>>]
    ELSE IF resp.json \in MistypedBodies
    THEN [raised |-> "AttributeError", text |-> <<>>]
    ELSE IF resp.json \in {"list", "dict"}
    THEN [raised |-> "none",
          text |-> strip(replace(resp.generated_text, format_messages, <<>>))]
    ELSE [raised |-> "none", text |-> UnexpectedFormat]

\* one exchange with the service: what it answered (whether an answer came,
\* the status, whether the body is JSON, whether the JSON has the types lines
\* 38-43 rely on) and what call_llm made of it
Exchange(resp) ==
    [sent |-> resp.sent, status_code |-> resp.status_code,
     decodes |-> resp.json # "invalid",
     typed |-> resp.json \notin MistypedBodies,
     raised |-> call_llm(resp).raised, text |-> call_llm(resp).text]

LLMExchanges == { Exchange(resp) : resp \in Responses }

\* the condition of line 93
loose_accepts(line, frame_num) ==
    /\ line # <<>>
    /\ \/ startswith(line, FrameWord)
       \/ startswith(line, str(frame_num) \o py_str(<<".">>))
       \/ startswith(line, str(frame_num) \o py_str(<<":">>))

\* line 95 with split(":") in place of split(":", 1)
loose_description_every_colon(line) ==
    IF contains(line, Colon) THEN strip(last(split(line, Colon)))
    ELSE strip(last(split(line, Dot)))

\* line 95
loose_description(line) ==
    IF contains(line, Colon) THEN strip(last(split1(line, Colon)))
    ELSE strip(last(split1(line, Dot)))

\* the loop of lines 89-97
RECURSIVE parse_loose(_, _, _)
parse_loose(lines, frame_num, acc) ==
    IF lines = <<>> THEN acc
    ELSE LET line == strip(Head(lines)) IN
         IF loose_accepts(line, frame_num)
         THEN parse_loose(Tail(lines), frame_num + 1,
                          Append(acc, FrameDescription(loose_description(line), frame_num)))
         ELSE parse_loose(Tail(lines), frame_num, acc)

\* lines 86-97: the frames the loose pass builds from a reply
loose_frames(text) == parse_loose(split(strip(text), Newline), 1, <<>>)

\* line 137
structured_description(line) ==
    IF contains(line, Colon) THEN strip(last(split1(line, Colon))) ELSE line

\* line 138: the number given to the line at 0-based index k of enumerate
structured_number(k) == k + 1

\* the loop of lines 133-138
RECURSIVE parse_structured(_, _, _, _)
parse_structured(lines, k, n, acc) ==
    IF lines = <<>> THEN acc
    ELSE LET line == strip(Head(lines)) IN
         IF line # <<>> /\ k < n
         THEN parse_structured(Tail(lines), k + 1, n,
                  Append(acc, FrameDescription(structured_description(line),
                                               structured_number(k))))
         ELSE parse_structured(Tail(lines), k + 1, n, acc)

\* lines 130-138: the frames the structured pass takes from a reply
structured_taken(text, n) == parse_structured(split(strip(text), Newline), 0, n, <<>>)

\* lines 143-146: the placeholder appended to fs
placeholder(fs, p) == FrameDescription(ContinuationPrefix \o p, Len(fs) + 1)

\* the loop of lines 141-146
RECURSIVE pad_frames(_, _, _)
pad_frames(fs, p, n) ==
    IF Len(fs) < n THEN pad_frames(Append(fs, placeholder(fs, p)), p, n) ELSE fs

\* lines 129-148: what generate_structured_frame_sequence returns for a reply
structured_frames(text, p, n) == pad_frames(structured_taken(text, n), p, n)

\* line 154
frames_text(fs) ==
    join_lines([k \in 1..Len(fs) |->
        FrameWord \o py_str(<<" ">>) \o str(fs[k].frame_number) \o py_str(<<":", " ">>) \o fs[k].description])

\* the loop of lines 185-199
RECURSIVE parse_refined(_, _)
parse_refined(lines, acc) ==
    IF lines = <<>> THEN acc
    ELSE LET line == strip(Head(lines))
             parts == split1(line, Colon)
             num == int(strip(replace(parts[1], FrameWord, <<>>)))
         IN  IF line # <<>> /\ startswith(line, FrameWord) /\ Len(parts) = 2 /\ num.ok
             THEN parse_refined(Tail(lines),
                                Append(acc, FrameDescription(strip(parts[2]), num.value)))
             ELSE parse_refined(Tail(lines), acc)

\* lines 182-199: the frames refine parses from a reply
refined_parsed(text) == parse_refined(split(strip(text), Newline), <<>>)

\* line 204, read at key n: the last entry with that number wins
refined_map_has(refined, n) == \E k \in 1..Len(refined) : refined[k].frame_number = n
refined_map_get(refined, n) ==
    refined[CHOOSE k \in 1..Len(refined) :
                /\ refined[k].frame_number = n
                /\ \A j \in (k + 1)..Len(refined) : refined[j].frame_number # n].description

\* lines 207-216
reconcile(fs, refined) ==
    [k \in 1..Len(fs) |->
        IF refined_map_has(refined, fs[k].frame_number)
        THEN FrameDescription(refined_map_get(refined, fs[k].frame_number), fs[k].frame_number)
        ELSE fs[k]]

\* line 202 with the test dropped: every reply is reconciled
needs_reconcile_always(fs, refined) == TRUE

\* line 202
needs_reconcile(fs, refined) == Len(refined) # Len(fs)

\* lines 181-220: what refine_frame_sequence returns for a reply
refine_result(fs, text) ==
    LET refined == refined_parsed(text) IN
    IF needs_reconcile(fs, refined) THEN reconcile(fs, refined) ELSE refined

CallRecord(kind, r) ==
    [call |-> kind, sent |-> r.sent, status_code |-> r.status_code, decodes |-> r.decodes,
     typed |-> r.typed]

(***************************************************************************)
(* The operations, one action per stretch of code between two program      *)
(* points.                                                                 *)
(***************************************************************************)
\* generate_frame_sequence, lines 83-97: the draft call and the loose pass
generate_frame_sequence(r) ==
    /\ pc = "draft"
    /\ calls' = Append(calls, CallRecord("draft", r))
    /\ IF r.raised # "none"
       THEN /\ pc' = "error"
            /\ UNCHANGED <<draft, response>>
       ELSE /\ response' = r.text
            /\ draft' = loose_frames(r.text)
            /\ pc' = "drafted"
    /\ UNCHANGED <<op, prompt, num_frames, frames, refined_frames>>
    /\ UNCHANGED image_vars

\* lines 102-106 with `<=` in place of `<` in the test of line 103
generate_frame_sequence_return_at_most ==
    /\ pc = "drafted"
    /\ IF Len(draft) <= num_frames
       THEN /\ pc' = "structured"
            /\ draft' = <<>> /\ response' = <<>>
            /\ UNCHANGED frames
       ELSE /\ pc' = "generated"
            /\ frames' = draft
            /\ UNCHANGED <<draft, response>>
    /\ UNCHANGED <<op, prompt, num_frames, refined_frames, calls>>
    /\ UNCHANGED image_vars

\* generate_frame_sequence, lines 102-106: return the draft, or give it up and
\* enter generate_structured_frame_sequence (the locals of the attempt are not
\* read again)
generate_frame_sequence_return ==
    /\ pc = "drafted"
    /\ IF Len(draft) < num_frames
       THEN /\ pc' = "structured"
            /\ draft' = <<>> /\ response' = <<>>
            /\ UNCHANGED frames
       ELSE /\ pc' = "generated"
            /\ frames' = draft
            /\ UNCHANGED <<draft, response>>
    /\ UNCHANGED <<op, prompt, num_frames, refined_frames, calls>>
    /\ UNCHANGED image_vars

\* generate_structured_frame_sequence, lines 108-148
generate_structured_frame_sequence(r) ==
    /\ pc = "structured"
    /\ calls' = Append(calls, CallRecord("structured", r))
    /\ IF r.raised # "none"
       THEN /\ pc' = "error"
            /\ UNCHANGED <<frames, response>>
       ELSE /\ response' = r.text
            /\ frames' = structured_frames(r.text, prompt, num_frames)
            /\ pc' = "generated"
    /\ UNCHANGED <<op, prompt, num_frames, draft, refined_frames>>
    /\ UNCHANGED image_vars

\* process_prompt, src/main.py lines 27-31: generate has returned, its result
\* is stored and handed to refine_frame_sequence
process_prompt_refine ==
    /\ pc = "generated" /\ op = "process_prompt"
    /\ pc' = "refine"
    /\ draft' = <<>> /\ response' = <<>>
    /\ UNCHANGED <<op, prompt, num_frames, frames, refined_frames, calls>>
    /\ UNCHANGED image_vars

\* refine_frame_sequence, lines 150-220 (and the return of process_prompt)
refine_frame_sequence(r) ==
    /\ pc = "refine"
    /\ calls' = Append(calls, CallRecord("refine", r))
    /\ IF r.raised # "none"
       THEN /\ pc' = "error"
            /\ UNCHANGED <<response, refined_frames>>
       ELSE /\ response' = r.text
            /\ refined_frames' = refine_result(frames, r.text)
            /\ pc' = "done"
    /\ UNCHANGED <<op, prompt, num_frames, draft, frames>>
    /\ UNCHANGED image_vars

DraftCall == pc = "draft" /\ \E r \in LLMExchanges : generate_frame_sequence(r)
DraftReturn == generate_frame_sequence_return
StructuredCall ==
    pc = "structured" /\ \E r \in LLMExchanges : generate_structured_frame_sequence(r)
StoreFrames == process_prompt_refine
\* the service may also answer with the frames it was sent, unchanged
EchoResponse ==
    [sent |-> TRUE, status_code |-> 200, json |-> "dict", generated_text |-> frames_text(frames)]
RefineCall ==
    /\ pc = "refine"
    /\ \/ \E r \in LLMExchanges : refine_frame_sequence(r)
       \/ refine_frame_sequence(Exchange(EchoResponse))

NoImages ==
    /\ api_key = FALSE /\ i = 0 /\ image_paths = <<>> /\ renders = <<>> /\ clock = 0

NoLLM ==
    /\ draft = <<>> /\ response = <<>> /\ refined_frames = <<>> /\ calls = <<>>

\* generate_frame_sequence(prompt, num_frames) called on its own
InitGenerate ==
    /\ pc = "draft" /\ op = "generate"
    /\ prompt \in Prompts /\ num_frames \in 1..MaxN
    /\ frames = <<>>
    /\ NoLLM /\ NoImages

NextGenerate == DraftCall \/ DraftReturn \/ StructuredCall

SpecGenerate == InitGenerate /\ [][NextGenerate]_vars

\* frame lists a caller can hand to refine_frame_sequence or generate_frame_images
InputNumbers == {1, 3}
\* descriptions: plain, with a ':', with a leading space, with a line break,
\* with a trailing form feed
InputDescriptions ==
    { py_str(<<"a">>), py_str(<<"b", ":", "c">>), py_str(<<" ", "a">>), py_str(<<"a", "\n", "b">>), py_str(<<"a", "\f">>) }
InputFrames ==
    UNION { [1..n -> { FrameDescription(d, k) : d \in InputDescriptions, k \in InputNumbers }]
            : n \in 0..MaxFrames }

\* refine_frame_sequence(frames, prompt) called on its own
InitRefine ==
    /\ pc = "refine" /\ op = "refine"
    /\ prompt \in Prompts /\ num_frames = 0
    /\ frames \in InputFrames
    /\ NoLLM /\ NoImages

NextRefine == RefineCall

SpecRefine == InitRefine /\ [][NextRefine]_vars

\* process_prompt(prompt, num_frames), src/main.py lines 8-34
Init ==
    /\ pc = "draft" /\ op = "process_prompt"
    /\ prompt \in Prompts /\ num_frames \in 1..MaxN
    /\ frames = <<>>
    /\ NoLLM /\ NoImages

Next == DraftCall \/ DraftReturn \/ StructuredCall \/ StoreFrames \/ RefineCall

Spec == Init /\ [][Next]_vars

(***************************************************************************)
(* ImageGenerationService (src/image_service.py)                           *)
(***************************************************************************)
\* what the request of generate_image can meet: the request raises, a
\* non-success status, a body without artifacts, an artifact that does not
\* decode to an image, an artifact that does
ImageOutcomes == {"exception", "non200", "no_artifacts", "bad_artifact", "image"}

\* what image.save (line 109) can meet: the file is written, or the write
\* raises (directory gone, name too long, disk full)
DiskOutcomes == {"written", "OSError"}

\* the whole seconds the wall clock advances during one generate_image call
Waits == {0, 2}

\* generate_image without the status test of lines 73-75
generate_image_any_status(key, outcome) ==
    key /\ outcome \in {"non200", "image"}

\* generate_image, lines 37-87: TRUE for an image, FALSE for None
generate_image(key, outcome) ==
    IF ~key THEN FALSE
    ELSE IF outcome = "exception" THEN FALSE
    ELSE IF outcome = "non200" THEN FALSE
    ELSE IF outcome = "no_artifacts" THEN FALSE
    ELSE IF outcome = "bad_artifact" THEN FALSE
    ELSE TRUE

\* the code points c with c.isalnum(), as ranges <<first, last>> (Unicode 14)
AlnumRanges ==
    { <<48, 57>>, <<65, 90>>, <<97, 122>>, <<170, 170>>, <<178, 179>>, <<181, 181>>,
      <<185, 186>>, <<188, 190>>, <<192, 214>>, <<216, 246>>, <<248, 705>>,
      <<710, 721>>, <<736, 740>>, <<748, 748>>, <<750, 750>>, <<880, 884>>,
      <<886, 887>>, <<890, 893>>, <<895, 895>>, <<902, 902>>, <<904, 906>>,
      <<908, 908>>, <<910, 929>>, <<931, 1013>>, <<1015, 1153>>, <<1162, 1327>>,
      <<1329, 1366>>, <<1369, 1369>>, <<1376, 1416>>, <<1488, 1514>>, <<1519, 1522>>,
      <<1568, 1610>>, <<1632, 1641>>, <<1646, 1647>>, <<1649, 1747>>, <<1749, 1749>>,
      <<1765, 1766>>, <<1774, 1788>>, <<1791, 1791>>, <<1808, 1808>>, <<1810, 1839>>,
      <<1869, 1957>>, <<1969, 1969>>, <<1984, 2026>>, <<2036, 2037>>, <<2042, 2042>>,
      <<2048, 2069>>, <<2074, 2074>>, <<2084, 2084>>, <<2088, 2088>>, <<2112, 2136>>,
      <<2144, 2154>>, <<2160, 2183>>, <<2185, 2190>>, <<2208, 2249>>, <<2308, 2361>>,
      <<2365, 2365>>, <<2384, 2384>>, <<2392, 2401>>, <<2406, 2415>>, <<2417, 2432>>,
      <<2437, 2444>>, <<2447, 2448>>, <<2451, 2472>>, <<2474, 2480>>, <<2482, 2482>>,
      <<2486, 2489>>, <<2493, 2493>>, <<2510, 2510>>, <<2524, 2525>>, <<2527, 2529>>,
      <<2534, 2545>>, <<2548, 2553>>, <<2556, 2556>>, <<2565, 2570>>, <<2575, 2576>>,
      <<2579, 2600>>, <<2602, 2608>>, <<2610, 2611>>, <<2613, 2614>>, <<2616, 2617>>,
      <<2649, 2652>>, <<2654, 2654>>, <<2662, 2671>>, <<2674, 2676>>, <<2693, 2701>>,
      <<2703, 2705>>, <<2707, 2728>>, <<2730, 2736>>, <<2738, 2739>>, <<2741, 2745>>,
      <<2749, 2749>>, <<2768, 2768>>, <<2784, 2785>>, <<2790, 2799>>, <<2809, 2809>>,
      <<2821, 2828>>, <<2831, 2832>>, <<2835, 2856>>, <<2858, 2864>>, <<2866, 2867>>,
      <<2869, 2873>>, <<2877, 2877>>, <<2908, 2909>>, <<2911, 2913>>, <<2918, 2927>>,
      <<2929, 2935>>, <<2947, 2947>>, <<2949, 2954>>, <<2958, 2960>>, <<2962, 2965>>,
      <<2969, 2970>>, <<2972, 2972>>, <<2974, 2975>>, <<2979, 2980>>, <<2984, 2986>>,
      <<2990, 3001>>, <<3024, 3024>>, <<3046, 3058>>, <<3077, 3084>>, <<3086, 3088>>,
      <<3090, 3112>>, <<3114, 3129>>, <<3133, 3133>>, <<3160, 3162>>, <<3165, 3165>>,
      <<3168, 3169>>, <<3174, 3183>>, <<3192, 3198>>, <<3200, 3200>>, <<3205, 3212>>,
      <<3214, 3216>>, <<3218, 3240>>, <<3242, 3251>>, <<3253, 3257>>, <<3261, 3261>>,
      <<3293, 3294>>, <<3296, 3297>>, <<3302, 3311>>, <<3313, 3314>>, <<3332, 3340>>,
      <<3342, 3344>>, <<3346, 3386>>, <<3389, 3389>>, <<3406, 3406>>, <<3412, 3414>>,
      <<3416, 3425>>, <<3430, 3448>>, <<3450, 3455>>, <<3461, 3478>>, <<3482, 3505>>,
      <<3507, 3515>>, <<3517, 3517>>, <<3520, 3526>>, <<3558, 3567>>, <<3585, 3632>>,
      <<3634, 3635>>, <<3648, 3654>>, <<3664, 3673>>, <<3713, 3714>>, <<3716, 3716>>,
      <<3718, 3722>>, <<3724, 3747>>, <<3749, 3749>>, <<3751, 3760>>, <<3762, 3763>>,
      <<3773, 3773>>, <<3776, 3780>>, <<3782, 3782>>, <<3792, 3801>>, <<3804, 3807>>,
      <<3840, 3840>>, <<3872, 3891>>, <<3904, 3911>>, <<3913, 3948>>, <<3976, 3980>>,
      <<4096, 4138>>, <<4159, 4169>>, <<4176, 4181>>, <<4186, 4189>>, <<4193, 4193>>,
      <<4197, 4198>>, <<4206, 4208>>, <<4213, 4225>>, <<4238, 4238>>, <<4240, 4249>>,
      <<4256, 4293>>, <<4295, 4295>>, <<4301, 4301>>, <<4304, 4346>>, <<4348, 4680>>,
      <<4682, 4685>>, <<4688, 4694>>, <<4696, 4696>>, <<4698, 4701>>, <<4704, 4744>>,
      <<4746, 4749>>, <<4752, 4784>>, <<4786, 4789>>, <<4792, 4798>>, <<4800, 4800>>,
      <<4802, 4805>>, <<4808, 4822>>, <<4824, 4880>>, <<4882, 4885>>, <<4888, 4954>>,
      <<4969, 4988>>, <<4992, 5007>>, <<5024, 5109>>, <<5112, 5117>>, <<5121, 5740>>,
      <<5743, 5759>>, <<5761, 5786>>, <<5792, 5866>>, <<5870, 5880>>, <<5888, 5905>>,
      <<5919, 5937>>, <<5952, 5969>>, <<5984, 5996>>, <<5998, 6000>>, <<6016, 6067>>,
      <<6103, 6103>>, <<6108, 6108>>, <<6112, 6121>>, <<6128, 6137>>, <<6160, 6169>>,
      <<6176, 6264>>, <<6272, 6276>>, <<6279, 6312>>, <<6314, 6314>>, <<6320, 6389>>,
      <<6400, 6430>>, <<6470, 6509>>, <<6512, 6516>>, <<6528, 6571>>, <<6576, 6601>>,
      <<6608, 6618>>, <<6656, 6678>>, <<6688, 6740>>, <<6784, 6793>>, <<6800, 6809>>,
      <<6823, 6823>>, <<6917, 6963>>, <<6981, 6988>>, <<6992, 7001>>, <<7043, 7072>>,
      <<7086, 7141>>, <<7168, 7203>>, <<7232, 7241>>, <<7245, 7293>>, <<7296, 7304>>,
      <<7312, 7354>>, <<7357, 7359>>, <<7401, 7404>>, <<7406, 7411>>, <<7413, 7414>>,
      <<7418, 7418>>, <<7424, 7615>>, <<7680, 7957>>, <<7960, 7965>>, <<7968, 8005>>,
      <<8008, 8013>>, <<8016, 8023>>, <<8025, 8025>>, <<8027, 8027>>, <<8029, 8029>>,
      <<8031, 8061>>, <<8064, 8116>>, <<8118, 8124>>, <<8126, 8126>>, <<8130, 8132>>,
      <<8134, 8140>>, <<8144, 8147>>, <<8150, 8155>>, <<8160, 8172>>, <<8178, 8180>>,
      <<8182, 8188>>, <<8304, 8305>>, <<8308, 8313>>, <<8319, 8329>>, <<8336, 8348>>,
      <<8450, 8450>>, <<8455, 8455>>, <<8458, 8467>>, <<8469, 8469>>, <<8473, 8477>>,
      <<8484, 8484>>, <<8486, 8486>>, <<8488, 8488>>, <<8490, 8493>>, <<8495, 8505>>,
      <<8508, 8511>>, <<8517, 8521>>, <<8526, 8526>>, <<8528, 8585>>, <<9312, 9371>>,
      <<9450, 9471>>, <<10102, 10131>>, <<11264, 11492>>, <<11499, 11502>>,
      <<11506, 11507>>, <<11517, 11517>>, <<11520, 11557>>, <<11559, 11559>>,
      <<11565, 11565>>, <<11568, 11623>>, <<11631, 11631>>, <<11648, 11670>>,
      <<11680, 11686>>, <<11688, 11694>>, <<11696, 11702>>, <<11704, 11710>>,
      <<11712, 11718>>, <<11720, 11726>>, <<11728, 11734>>, <<11736, 11742>>,
      <<11823, 11823>>, <<12293, 12295>>, <<12321, 12329>>, <<12337, 12341>>,
      <<12344, 12348>>, <<12353, 12438>>, <<12445, 12447>>, <<12449, 12538>>,
      <<12540, 12543>>, <<12549, 12591>>, <<12593, 12686>>, <<12690, 12693>>,
      <<12704, 12735>>, <<12784, 12799>>, <<12832, 12841>>, <<12872, 12879>>,
      <<12881, 12895>>, <<12928, 12937>>, <<12977, 12991>>, <<13312, 19903>>,
      <<19968, 42124>>, <<42192, 42237>>, <<42240, 42508>>, <<42512, 42539>>,
      <<42560, 42606>>, <<42623, 42653>>, <<42656, 42735>>, <<42775, 42783>>,
      <<42786, 42888>>, <<42891, 42954>>, <<42960, 42961>>, <<42963, 42963>>,
      <<42965, 42969>>, <<42994, 43009>>, <<43011, 43013>>, <<43015, 43018>>,
      <<43020, 43042>>, <<43056, 43061>>, <<43072, 43123>>, <<43138, 43187>>,
      <<43216, 43225>>, <<43250, 43255>>, <<43259, 43259>>, <<43261, 43262>>,
      <<43264, 43301>>, <<43312, 43334>>, <<43360, 43388>>, <<43396, 43442>>,
      <<43471, 43481>>, <<43488, 43492>>, <<43494, 43518>>, <<43520, 43560>>,
      <<43584, 43586>>, <<43588, 43595>>, <<43600, 43609>>, <<43616, 43638>>,
      <<43642, 43642>>, <<43646, 43695>>, <<43697, 43697>>, <<43701, 43702>>,
      <<43705, 43709>>, <<43712, 43712>>, <<43714, 43714>>, <<43739, 43741>>,
      <<43744, 43754>>, <<43762, 43764>>, <<43777, 43782>>, <<43785, 43790>>,
      <<43793, 43798>>, <<43808, 43814>>, <<43816, 43822>>, <<43824, 43866>>,
      <<43868, 43881>>, <<43888, 44002>>, <<44016, 44025>>, <<44032, 55203>>,
      <<55216, 55238>>, <<55243, 55291>>, <<63744, 64109>>, <<64112, 64217>>,
      <<64256, 64262>>, <<64275, 64279>>, <<64285, 64285>>, <<64287, 64296>>,
      <<64298, 64310>>, <<64312, 64316>>, <<64318, 64318>>, <<64320, 64321>>,
      <<64323, 64324>>, <<64326, 64433>>, <<64467, 64829>>, <<64848, 64911>>,
      <<64914, 64967>>, <<65008, 65019>>, <<65136, 65140>>, <<65142, 65276>>,
      <<65296, 65305>>, <<65313, 65338>>, <<65345, 65370>>, <<65382, 65470>>,
      <<65474, 65479>>, <<65482, 65487>>, <<65490, 65495>>, <<65498, 65500>>,
      <<65536, 65547>>, <<65549, 65574>>, <<65576, 65594>>, <<65596, 65597>>,
      <<65599, 65613>>, <<65616, 65629>>, <<65664, 65786>>, <<65799, 65843>>,
      <<65856, 65912>>, <<65930, 65931>>, <<66176, 66204>>, <<66208, 66256>>,
      <<66273, 66299>>, <<66304, 66339>>, <<66349, 66378>>, <<66384, 66421>>,
      <<66432, 66461>>, <<66464, 66499>>, <<66504, 66511>>, <<66513, 66517>>,
      <<66560, 66717>>, <<66720, 66729>>, <<66736, 66771>>, <<66776, 66811>>,
      <<66816, 66855>>, <<66864, 66915>>, <<66928, 66938>>, <<66940, 66954>>,
      <<66956, 66962>>, <<66964, 66965>>, <<66967, 66977>>, <<66979, 66993>>,
      <<66995, 67001>>, <<67003, 67004>>, <<67072, 67382>>, <<67392, 67413>>,
      <<67424, 67431>>, <<67456, 67461>>, <<67463, 67504>>, <<67506, 67514>>,
      <<67584, 67589>>, <<67592, 67592>>, <<67594, 67637>>, <<67639, 67640>>,
      <<67644, 67644>>, <<67647, 67669>>, <<67672, 67702>>, <<67705, 67742>>,
      <<67751, 67759>>, <<67808, 67826>>, <<67828, 67829>>, <<67835, 67867>>,
      <<67872, 67897>>, <<67968, 68023>>, <<68028, 68047>>, <<68050, 68096>>,
      <<68112, 68115>>, <<68117, 68119>>, <<68121, 68149>>, <<68160, 68168>>,
      <<68192, 68222>>, <<68224, 68255>>, <<68288, 68295>>, <<68297, 68324>>,
      <<68331, 68335>>, <<68352, 68405>>, <<68416, 68437>>, <<68440, 68466>>,
      <<68472, 68497>>, <<68521, 68527>>, <<68608, 68680>>, <<68736, 68786>>,
      <<68800, 68850>>, <<68858, 68899>>, <<68912, 68921>>, <<69216, 69246>>,
      <<69248, 69289>>, <<69296, 69297>>, <<69376, 69415>>, <<69424, 69445>>,
      <<69457, 69460>>, <<69488, 69505>>, <<69552, 69579>>, <<69600, 69622>>,
      <<69635, 69687>>, <<69714, 69743>>, <<69745, 69746>>, <<69749, 69749>>,
      <<69763, 69807>>, <<69840, 69864>>, <<69872, 69881>>, <<69891, 69926>>,
      <<69942, 69951>>, <<69956, 69956>>, <<69959, 69959>>, <<69968, 70002>>,
      <<70006, 70006>>, <<70019, 70066>>, <<70081, 70084>>, <<70096, 70106>>,
      <<70108, 70108>>, <<70113, 70132>>, <<70144, 70161>>, <<70163, 70187>>,
      <<70272, 70278>>, <<70280, 70280>>, <<70282, 70285>>, <<70287, 70301>>,
      <<70303, 70312>>, <<70320, 70366>>, <<70384, 70393>>, <<70405, 70412>>,
      <<70415, 70416>>, <<70419, 70440>>, <<70442, 70448>>, <<70450, 70451>>,
      <<70453, 70457>>, <<70461, 70461>>, <<70480, 70480>>, <<70493, 70497>>,
      <<70656, 70708>>, <<70727, 70730>>, <<70736, 70745>>, <<70751, 70753>>,
      <<70784, 70831>>, <<70852, 70853>>, <<70855, 70855>>, <<70864, 70873>>,
      <<71040, 71086>>, <<71128, 71131>>, <<71168, 71215>>, <<71236, 71236>>,
      <<71248, 71257>>, <<71296, 71338>>, <<71352, 71352>>, <<71360, 71369>>,
      <<71424, 71450>>, <<71472, 71483>>, <<71488, 71494>>, <<71680, 71723>>,
      <<71840, 71922>>, <<71935, 71942>>, <<71945, 71945>>, <<71948, 71955>>,
      <<71957, 71958>>, <<71960, 71983>>, <<71999, 71999>>, <<72001, 72001>>,
      <<72016, 72025>>, <<72096, 72103>>, <<72106, 72144>>, <<72161, 72161>>,
      <<72163, 72163>>, <<72192, 72192>>, <<72203, 72242>>, <<72250, 72250>>,
      <<72272, 72272>>, <<72284, 72329>>, <<72349, 72349>>, <<72368, 72440>>,
      <<72704, 72712>>, <<72714, 72750>>, <<72768, 72768>>, <<72784, 72812>>,
      <<72818, 72847>>, <<72960, 72966>>, <<72968, 72969>>, <<72971, 73008>>,
      <<73030, 73030>>, <<73040, 73049>>, <<73056, 73061>>, <<73063, 73064>>,
      <<73066, 73097>>, <<73112, 73112>>, <<73120, 73129>>, <<73440, 73458>>,
      <<73648, 73648>>, <<73664, 73684>>, <<73728, 74649>>, <<74752, 74862>>,
      <<74880, 75075>>, <<77712, 77808>>, <<77824, 78894>>, <<82944, 83526>>,
      <<92160, 92728>>, <<92736, 92766>>, <<92768, 92777>>, <<92784, 92862>>,
      <<92864, 92873>>, <<92880, 92909>>, <<92928, 92975>>, <<92992, 92995>>,
      <<93008, 93017>>, <<93019, 93025>>, <<93027, 93047>>, <<93053, 93071>>,
      <<93760, 93846>>, <<93952, 94026>>, <<94032, 94032>>, <<94099, 94111>>,
      <<94176, 94177>>, <<94179, 94179>>, <<94208, 100343>>, <<100352, 101589>>,
      <<101632, 101640>>, <<110576, 110579>>, <<110581, 110587>>, <<110589, 110590>>,
      <<110592, 110882>>, <<110928, 110930>>, <<110948, 110951>>, <<110960, 111355>>,
      <<113664, 113770>>, <<113776, 113788>>, <<113792, 113800>>, <<113808, 113817>>,
      <<119520, 119539>>, <<119648, 119672>>, <<119808, 119892>>, <<119894, 119964>>,
      <<119966, 119967>>, <<119970, 119970>>, <<119973, 119974>>, <<119977, 119980>>,
      <<119982, 119993>>, <<119995, 119995>>, <<119997, 120003>>, <<120005, 120069>>,
      <<120071, 120074>>, <<120077, 120084>>, <<120086, 120092>>, <<120094, 120121>>,
      <<120123, 120126>>, <<120128, 120132>>, <<120134, 120134>>, <<120138, 120144>>,
      <<120146, 120485>>, <<120488, 120512>>, <<120514, 120538>>, <<120540, 120570>>,
      <<120572, 120596>>, <<120598, 120628>>, <<120630, 120654>>, <<120656, 120686>>,
      <<120688, 120712>>, <<120714, 120744>>, <<120746, 120770>>, <<120772, 120779>>,
      <<120782, 120831>>, <<122624, 122654>>, <<123136, 123180>>, <<123191, 123197>>,
      <<123200, 123209>>, <<123214, 123214>>, <<123536, 123565>>, <<123584, 123627>>,
      <<123632, 123641>>, <<124896, 124902>>, <<124904, 124907>>, <<124909, 124910>>,
      <<124912, 124926>>, <<124928, 125124>>, <<125127, 125135>>, <<125184, 125251>>,
      <<125259, 125259>>, <<125264, 125273>>, <<126065, 126123>>, <<126125, 126127>>,
      <<126129, 126132>>, <<126209, 126253>>, <<126255, 126269>>, <<126464, 126467>>,
      <<126469, 126495>>, <<126497, 126498>>, <<126500, 126500>>, <<126503, 126503>>,
      <<126505, 126514>>, <<126516, 126519>>, <<126521, 126521>>, <<126523, 126523>>,
      <<126530, 126530>>, <<126535, 126535>>, <<126537, 126537>>, <<126539, 126539>>,
      <<126541, 126543>>, <<126545, 126546>>, <<126548, 126548>>, <<126551, 126551>>,
      <<126553, 126553>>, <<126555, 126555>>, <<126557, 126557>>, <<126559, 126559>>,
      <<126561, 126562>>, <<126564, 126564>>, <<126567, 126570>>, <<126572, 126578>>,
      <<126580, 126583>>, <<126585, 126588>>, <<126590, 126590>>, <<126592, 126601>>,
      <<126603, 126619>>, <<126625, 126627>>, <<126629, 126633>>, <<126635, 126651>>,
      <<127232, 127244>>, <<130032, 130041>>, <<131072, 173791>>, <<173824, 177976>>,
      <<177984, 178205>>, <<178208, 183969>>, <<183984, 191456>>, <<194560, 195101>>,
      <<196608, 201546>> }

\* c.isalnum()
isalnum(c) == \E r \in AlnumRanges : r[1] <= c /\ c <= r[2]

\* f"{n:02d}"
format_02d(n) == IF 0 <= n /\ n < 10 THEN <<Zero>> \o str(n) ELSE str(n)

\* s[:n]
prefix(s, n) == SubSeq(s, 1, IF Len(s) < n THEN Len(s) ELSE n)

\* line 140
frame_filename(frame) ==
    py_str(<<"f", "r", "a", "m", "e", "_">>) \o format_02d(frame.frame_number)
        \o <<Underscore>> \o replace(prefix(frame.description, 30), <<Space>>, <<Underscore>>)

\* line 104
clean_filename(filename) ==
    [k \in 1..Len(filename) |->
        IF isalnum(filename[k]) \/ filename[k] \in {Space, Minus, Underscore}
        THEN filename[k] ELSE Underscore]

\* os.getcwd(): the directory the service was constructed in
getcwd == py_str(<<"/", "w">>)

\* os.path.join(a, b) on POSIX
os_path_join(a, b) ==
    IF b # <<>> /\ Head(b) = Slash THEN b
    ELSE IF a = <<>> \/ a[Len(a)] = Slash THEN a \o b
    ELSE a \o <<Slash>> \o b

\* line 23
output_dir ==
    os_path_join(getcwd, py_str(<<"g", "e", "n", "e", "r", "a", "t", "e", "d", "_",
                                  "f", "r", "a", "m", "e", "s">>))

\* the day datetime.now() falls on, as %Y%m%d
Today == py_str(<<"2", "0", "2", "6", "0", "1", "0", "1">>)

\* datetime.now().strftime("%Y%m%d_%H%M%S"), now in seconds since midnight
strftime(now) ==
    Today \o <<Underscore>> \o format_02d(now \div 3600)
        \o format_02d((now \div 60) % 60) \o format_02d(now % 60)

\* save_image, lines 100-111: the exception that leaves it ("none": it
\* returns), whether it returns a path (FALSE: None), and the path
save_image(image, filename, now, disk) ==
    IF ~image
    THEN [raised |-> "none", saved |-> FALSE, path |-> <<>>]
    ELSE IF disk # "written"
    THEN [raised |-> disk, saved |-> FALSE, path |-> <<>>]
    ELSE [raised |-> "none", saved |-> TRUE,
          path |-> os_path_join(output_dir,
                       strftime(now) \o <<Underscore>> \o clean_filename(filename)
                           \o py_str(<<".", "p", "n", "g">>))]

\* generate_frame_images, lines 129-149: one turn of the loop.  The call of
\* generate_image takes `took` seconds, the image is saved at the time the
\* call returned, and the pause of lines 148-149 follows unless the frame is
\* the last; an exception of image.save leaves the method.
generate_frame_images_step(outcome, took, disk) ==
    LET frame == frames[i + 1]
        image == generate_image(api_key, outcome)
        now == clock + took
        saved == save_image(image, frame_filename(frame), now, disk)
    IN  /\ pc = "images" /\ i < Len(frames)
        /\ renders' = Append(renders, [index |-> i, outcome |-> outcome, at |-> now,
                                       disk |-> disk])
        /\ IF saved.raised # "none"
           THEN /\ pc' = "error"
                /\ clock' = now
                /\ UNCHANGED <<i, image_paths>>
           ELSE /\ image_paths' = IF saved.saved THEN Append(image_paths, saved.path)
                                  ELSE image_paths
                /\ clock' = IF i < Len(frames) - 1 THEN now + 1 ELSE now
                /\ i' = i + 1
                /\ UNCHANGED pc
        /\ UNCHANGED <<op, api_key>>
        /\ UNCHANGED llm_vars

\* generate_frame_images, line 151
generate_frame_images_return ==
    /\ pc = "images" /\ i = Len(frames)
    /\ pc' = "done"
    /\ UNCHANGED <<op, api_key, i, image_paths, renders, clock>>
    /\ UNCHANGED llm_vars

\* without a key generate_image returns before any request (lines 37-39);
\* image.save runs only on an image
RenderFrame ==
    /\ pc = "images" /\ i < Len(frames)
    /\ \E outcome \in (IF api_key THEN ImageOutcomes ELSE {"no_request"}) :
       \E took \in (IF api_key THEN Waits ELSE {0}) :
       \E disk \in (IF generate_image(api_key, outcome) THEN DiskOutcomes ELSE {"unused"}) :
           generate_frame_images_step(outcome, took, disk)
ReturnPaths == generate_frame_images_return

\* frame lists a caller can hand to generate_frame_images: a short
\* description, and one of more than 30 characters with spaces, a ':' and the
\* letter e-acute (code point 233)
ImageNumbers == {1, 12}
ImageDescriptions ==
    { py_str(<<"a">>),
      py_str(<<"c", "a", "f">>) \o <<233>>
          \o py_str(<<":", " ", "a", " ", "c", "a", "t", " ", "s", "i", "t", "s", " ", "o",
                      "n", " ", "t", "h", "e", " ", "m", "a", "t", " ", "b", "y", " ", "t",
                      "h", "e", " ", "d", "o", "o", "r">>) }
ImageFrames ==
    UNION { [1..n -> { FrameDescription(d, k) : d \in ImageDescriptions, k \in ImageNumbers }]
            : n \in 0..MaxFrames }

\* the wall clock when generate_frame_images is called, in seconds since midnight
StartTimes == {59}

\* generate_frame_images(frames) called on a frame list
InitImages ==
    /\ pc = "images" /\ op = "images"
    /\ prompt \in Prompts /\ num_frames = 0
    /\ frames \in ImageFrames
    /\ NoLLM
    /\ api_key \in BOOLEAN /\ i = 0 /\ image_paths = <<>> /\ renders = <<>>
    /\ clock \in StartTimes

NextImages == RenderFrame \/ ReturnPaths

SpecImages == InitImages /\ [][NextImages]_vars

(***************************************************************************)
(* Properties                                                              *)
(***************************************************************************)
\* the frame numbers of fs are 1, 2, ..., Len(fs) in that order
NumberedFromOne(fs) == \A k \in 1..Len(fs) : fs[k].frame_number = k

\* the structured pass ran: the value generate returned is its result
FellBack == Len(calls) >= 2 /\ calls[2].call = "structured"

\* C1: for every N >= 1 and every text of the draft and of the structured
\* reply, generate_frame_sequence(prompt, N) returns exactly N frames whose
\* frame numbers are 1, 2, ..., N in that order.
C1_GenerateReturnsExactlyN ==
    pc = "generated" => Len(frames) = num_frames /\ NumberedFromOne(frames)

\* C2: for every input list and every reply, refine_frame_sequence returns a
\* list as long as its input whose k-th frame number is the k-th input frame
\* number.
C2_RefineMirrorsInput ==
    pc = "done" =>
        /\ Len(refined_frames) = Len(frames)
        /\ \A k \in 1..Len(frames) : refined_frames[k].frame_number = frames[k].frame_number

\* C3: whenever process_prompt(prompt, N) returns, refined_frames has length N
\* and frame numbers 1..N in ascending order.
C3_StoryboardNumbered ==
    (op = "process_prompt" /\ pc = "done") =>
        Len(refined_frames) = num_frames /\ NumberedFromOne(refined_frames)

\* C4: every frame number in the output of refine_frame_sequence is a frame
\* number of its input: a reply line with a foreign number is never injected.
C4_NoForeignNumber ==
    pc = "done" =>
        \A k \in 1..Len(refined_frames) :
            \E j \in 1..Len(frames) : frames[j].frame_number = refined_frames[k].frame_number

\* the reply refine got is the input, one "Frame <number>: <description>" line
\* per frame, as call_llm hands it back
ReplyIsEcho == response = call_llm(EchoResponse).text

\* C5 as claimed: for every input list, when the reply echoes the input the
\* output has the input's length and its k-th description is the k-th input
\* description.
C5_EchoKeepsDescriptions ==
    (pc = "done" /\ ReplyIsEcho) =>
        /\ Len(refined_frames) = Len(frames)
        /\ \A k \in 1..Len(frames) : refined_frames[k].description = frames[k].description

\* a description without leading or trailing whitespace and without line break
Trimmed(d) == strip(d) = d /\ ~contains(d, Newline)

\* C5 amended: when the reply echoes the input and no input description has
\* leading or trailing whitespace or a line break, the output has the input's
\* length and its k-th description is the k-th input description.
C5_EchoKeepsTrimmedDescriptions ==
    (pc = "done" /\ ReplyIsEcho /\ \A k \in 1..Len(frames) : Trimmed(frames[k].description)) =>
        /\ Len(refined_frames) = Len(frames)
        /\ \A k \in 1..Len(frames) : refined_frames[k].description = frames[k].description

\* refine returned on the echo of two frames that share a number, one of them
\* with a ':' in its description
C5_Witness ==
    /\ pc = "done" /\ ReplyIsEcho /\ Len(frames) = 2
    /\ frames[1].frame_number = frames[2].frame_number
    /\ frames[1].description = py_str(<<"a">>)
    /\ frames[2].description = py_str(<<"b", ":", "c">>)
    /\ refined_frames = frames

\* C6: when the structured pass takes k < N frames, generate returns those k
\* frames followed by N-k placeholders described from the prompt, the
\* placeholders numbered k+1..N and the whole result numbered 1..N.
C6_PlaceholdersFillGap ==
    (pc = "generated" /\ FellBack) =>
        LET taken == structured_taken(response, num_frames)
        IN  /\ Len(frames) = num_frames
            /\ \A k \in 1..Len(taken) : frames[k].description = taken[k].description
            /\ \A k \in (Len(taken) + 1)..num_frames :
                   frames[k] = FrameDescription(ContinuationPrefix \o prompt, k)
            /\ NumberedFromOne(frames)

\* C7, the acceptance rule as claimed: non-empty and starting with "Frame" or
\* with the expected index followed by '.' or ':'
C7_Accepts(line, expected) ==
    LET begins(p) == Len(p) <= Len(line) /\ \A k \in 1..Len(p) : line[k] = p[k]
    IN  /\ Len(line) > 0
        /\ \/ begins(FrameWord)
           \/ \E sep \in {Dot, Colon} : begins(str(expected) \o <<sep>>)

\* C7, the number of lines accepted among the first j
RECURSIVE C7_Count(_, _)
C7_Count(lines, j) ==
    IF j = 0 THEN 0
    ELSE LET c == C7_Count(lines, j - 1)
         IN  IF C7_Accepts(lines[j], c + 1) THEN c + 1 ELSE c

\* C7, the description as claimed: the trimmed text after the first ':', after
\* the first '.' when the line has no ':'
C7_Description(line) ==
    LET sep == IF \E k \in 1..Len(line) : line[k] = Colon THEN Colon ELSE Dot
        at == CHOOSE k \in 0..Len(line) :
                  /\ k # 0 => line[k] = sep
                  /\ \A j \in 1..Len(line) : line[j] = sep => (k # 0 /\ k <= j)
    IN  strip(SubSeq(line, at + 1, Len(line)))

C7_Lines == LET raw == split(strip(response), Newline) IN [k \in 1..Len(raw) |-> strip(raw[k])]

C7_DraftAsClaimed ==
    (pc = "drafted" \/ (pc = "generated" /\ ~FellBack)) =>
        /\ Len(draft) = C7_Count(C7_Lines, Len(C7_Lines))
        /\ \A j \in 1..Len(C7_Lines) :
               LET c == C7_Count(C7_Lines, j)
               IN  c > C7_Count(C7_Lines, j - 1) =>
                       draft[c] = FrameDescription(C7_Description(C7_Lines[j]), c)

\* the replies "Frame 1: d1" ... "Frame N: dN" of the claim
C7_ScenarioFrames ==
    { [k \in 1..num_frames |-> FrameDescription(ds[k], k)] :
          ds \in [1..num_frames -> {py_str(<<"a">>), py_str(<<"b", ":", "c">>)}] }

C7_ScenarioReturns ==
    \A fs \in C7_ScenarioFrames :
        (pc = "drafted" /\ response = frames_text(fs)) =>
            (pc' = "generated" /\ frames' = fs /\ calls' = calls)

\* C7: the loose pass accepts a line iff, trimmed, it is non-empty and starts
\* with "Frame" or with the expected index followed by '.' or ':'; accepted
\* lines are numbered 1, 2, 3, ... in order of acceptance whatever number they
\* carry, each description being the trimmed text after the first ':' (after
\* the first '.' without ':'); a reply of N lines "Frame k: dk" is returned as
\* N frames numbered 1..N with the descriptions dk, without a second call.
C7_LoosePass == []C7_DraftAsClaimed /\ [][C7_ScenarioReturns]_vars

\* the loose pass accepted "Frame 2: b:c" as frame 1 and " 2. b" as frame 2
C7_Witness ==
    /\ pc = "drafted"
    /\ response = join_lines(<<FrameWord \o py_str(<<" ", "2", ":", " ", "b", ":", "c">>),
                               py_str(<<" ", "2", ".", " ", "b">>)>>)
    /\ draft = <<FrameDescription(py_str(<<"b", ":", "c">>), 1), FrameDescription(py_str(<<"b">>), 2)>>

\* the call recorded as c ended in an exception of call_llm: the request
\* itself failed, the status is not 200, the body of a 200 is not JSON, or its
\* JSON has not the types lines 38-43 rely on
CallRaised(c) == ~c.sent \/ c.status_code # 200 \/ ~c.decodes \/ ~c.typed

\* the call recorded as c met no success status: no answer came, or one with
\* a status other than 200
NoSuccessStatus(c) == ~c.sent \/ c.status_code # 200

\* C8: the operations end in an error if and only if a completion call they
\* issue fails, that is, is not answered with a success status; after a call
\* answered with a success status, whatever the reply, the operation goes on
\* or returns a sequence.
C8_ErrorIffNoSuccessStatus ==
    pc = "error" <=> (calls # <<>> /\ NoSuccessStatus(last(calls)))

\* what holds in place of C8: generate, refine and process_prompt end in an
\* error if and only if call_llm raises (the request fails, the service
\* answers with a non-success status, or it answers 200 with a body that is
\* not JSON or not of the expected types); that call is the last one made and
\* no storyboard is returned; after a call that returned text, whatever the
\* text, the operation goes on or returns a sequence.
C8_ErrorIffCallRaises ==
    /\ pc = "error" <=> (calls # <<>> /\ CallRaised(last(calls)))
    /\ \A k \in 1..(Len(calls) - 1) : ~CallRaised(calls[k])
    /\ pc = "error" => refined_frames = <<>>
    /\ (calls # <<>> /\ ~CallRaised(last(calls))) =>
           pc \in {"drafted", "structured", "generated", "refine", "done"}

\* process_prompt ended in an error of its refine call, answered with 503,
\* after generate fell back and returned
C8_Witness ==
    /\ pc = "error" /\ op = "process_prompt"
    /\ Len(calls) = 3 /\ calls[3].call = "refine" /\ calls[3].status_code = 503
    /\ frames # <<>> /\ refined_frames = <<>>

\* the render of the k-th frame yielded an image
Rendered(k) == api_key /\ renders[k].outcome = "image"

\* what C9 says of a batch that has returned: one render call per input
\* frame, in input order, and exactly the saved paths of the frames whose
\* render yielded an image, in frame order
C9_ReturnedPaths ==
    /\ Len(renders) = Len(frames)
    /\ \A k \in 1..Len(renders) : renders[k].index = k - 1
    /\ Len(image_paths) = Cardinality({k \in 1..Len(frames) : Rendered(k)})
    /\ \A k \in 1..Len(frames) :
           Rendered(k) =>
               image_paths[Cardinality({j \in 1..k : Rendered(j)})]
                   = save_image(TRUE, frame_filename(frames[k]), renders[k].at, "written").path

\* C9 as claimed: generate_frame_images makes exactly one render call per
\* input frame, in input order, never raises, and returns exactly the saved
\* paths of the frames whose render yielded an image, in frame order.
C9_BatchSkipsFailedFrames ==
    /\ op = "images" => pc \in {"images", "done"}
    /\ (op = "images" /\ pc = "done") => C9_ReturnedPaths

\* what the code does instead of C9: a frame without image is skipped without
\* raising and without stopping the batch, but an exception of image.save on
\* a rendered image (line 109, in no try) ends the batch at that frame and no
\* list is returned; a batch that returns has written every rendered image
\* and returns exactly their paths in frame order.
C9_BatchSkipsFramesWithoutImage ==
    /\ op = "images" => pc \in {"images", "done", "error"}
    /\ (op = "images" /\ pc = "error") =>
           /\ renders # <<>>
           /\ Rendered(Len(renders)) /\ last(renders).disk # "written"
    /\ (op = "images" /\ pc # "error") =>
           \A k \in 1..Len(renders) : Rendered(k) => renders[k].disk = "written"
    /\ (op = "images" /\ pc = "done") => C9_ReturnedPaths

\* a batch of two frames returned with the first render failed on a
\* non-success status and the second saved
C9_Witness ==
    /\ op = "images" /\ pc = "done" /\ api_key
    /\ Len(frames) = 2 /\ Len(renders) = 2
    /\ renders[1].outcome = "non200" /\ renders[2].outcome = "image"
    /\ Len(image_paths) = 1

\* the FrameDescription data model of the spec
SatisfiesDataModel(f) == f.description # <<>> /\ f.frame_number >= 1

\* C10: every frame generate_frame_sequence or refine_frame_sequence returns
\* has a non-empty description and a frame number >= 1.
C10_FramesSatisfyDataModel ==
    /\ pc = "generated" => \A k \in 1..Len(frames) : SatisfiesDataModel(frames[k])
    /\ pc = "done" =>
           \A k \in 1..Len(refined_frames) : SatisfiesDataModel(refined_frames[k])

\* C11, a qualifying reply line: trimmed, it starts with "Frame", contains a
\* ':' and has an integer between "Frame" and the first ':'
C11_Qualifies(line) ==
    /\ startswith(line, FrameWord)
    /\ contains(line, Colon)
    /\ int(replace(SubSeq(line, 1, find(line, Colon) - 1), FrameWord, <<>>)).ok

\* C11, the number a qualifying line carries and the text after its first ':'
C11_Number(line) ==
    int(replace(SubSeq(line, 1, find(line, Colon) - 1), FrameWord, <<>>)).value
C11_Text(line) == strip(SubSeq(line, find(line, Colon) + 1, Len(line)))

\* C11, the trimmed lines of the reply refine got
C11_Lines == LET raw == split(strip(response), Newline) IN [k \in 1..Len(raw) |-> strip(raw[k])]

\* C11, the positions of the qualifying reply lines that carry the number n
C11_Carrying(n) ==
    { j \in 1..Len(C11_Lines) : C11_Qualifies(C11_Lines[j]) /\ C11_Number(C11_Lines[j]) = n }

\* C11, the largest member of a non-empty set of positions
C11_Max(S) == CHOOSE j \in S : \A m \in S : m <= j

\* C11: for every reply, whatever the number of its qualifying lines, the
\* output of refine_frame_sequence has at the position of every input frame f
\* the description of the last qualifying reply line whose number is
\* f.frame_number, and f's own description when no qualifying line carries
\* that number.
C11_ReconciledByNumber ==
    pc = "done" =>
        \A k \in 1..Len(frames) :
            /\ k <= Len(refined_frames)
            /\ refined_frames[k].description =
                   IF C11_Carrying(frames[k].frame_number) = {}
                   THEN frames[k].description
                   ELSE C11_Text(C11_Lines[C11_Max(C11_Carrying(frames[k].frame_number))])

\* C11 where line 202 lets the reconciliation run: the reply has more or
\* fewer qualifying lines than the input has frames
C11_ReconciledWhenCountsDiffer ==
    (pc = "done"
        /\ Cardinality({ j \in 1..Len(C11_Lines) : C11_Qualifies(C11_Lines[j]) }) # Len(frames)) =>
        C11_ReconciledByNumber

\* C12, the trimmed lines of the reply the structured pass got
C12_Lines == LET raw == split(strip(response), Newline) IN [k \in 1..Len(raw) |-> strip(raw[k])]

\* C12, the positions of the lines the structured pass takes: the non-blank
\* ones among the first N lines of the reply
C12_TakenAt ==
    { k \in 1..Len(C12_Lines) : k <= num_frames /\ C12_Lines[k] # <<>> }

\* C12, the position of the j-th taken line
C12_Position(j) ==
    CHOOSE k \in C12_TakenAt : Cardinality({ m \in C12_TakenAt : m <= k }) = j

\* C12, the description taken from a line: the trimmed text after the first
\* ':', the whole line without ':'
C12_Description(line) ==
    IF contains(line, Colon) THEN strip(SubSeq(line, find(line, Colon) + 1, Len(line))) ELSE line

\* C12 without the numbering: the frames taken before padding are the
\* non-blank ones among the first N reply lines, in order, at most N of them,
\* each described by the text after its first ':'
C12_TakesFromFirstN ==
    (pc = "generated" /\ FellBack) =>
        /\ Cardinality(C12_TakenAt) <= num_frames
        /\ Cardinality(C12_TakenAt) <= Len(frames)
        /\ \A j \in 1..Cardinality(C12_TakenAt) :
               frames[j].description = C12_Description(C12_Lines[C12_Position(j)])
        /\ \A j \in (Cardinality(C12_TakenAt) + 1)..Len(frames) :
               frames[j].description = ContinuationPrefix \o prompt

\* C12: the structured pass takes frames only from the first N lines of the
\* reply, at most N of them, and the j-th taken line gets frame_number j
\* whatever number its text holds, also when blank lines occur among the first
\* N lines: before padding the taken frames are numbered contiguously from 1.
C12_StructuredNumbersPositionally ==
    (pc = "generated" /\ FellBack) =>
        /\ C12_TakesFromFirstN
        /\ \A j \in 1..Cardinality(C12_TakenAt) : frames[j].frame_number = j

\* C12, the numbering of line 138: the j-th taken frame carries the position
\* its line has in the reply, blank lines counted
C12_NumberedByLineIndex ==
    (pc = "generated" /\ FellBack) =>
        \A j \in 1..Cardinality(C12_TakenAt) : frames[j].frame_number = C12_Position(j)

\* C13, the completion calls made so far, by kind
C13_Kinds == [k \in 1..Len(calls) |-> calls[k].call]

\* C13, the call sequences of a process_prompt run at each program point: the
\* draft call once, then the structured call at most once, then the refine
\* call once; a call that raised is the last one; a run that returned made 2 or
\* 3 calls; a result that comes from the structured pass is built from the
\* structured reply, the prompt and N alone
C13_CallsInOrder ==
    /\ C13_Kinds \in { <<>>, <<"draft">>, <<"draft", "structured">>, <<"draft", "refine">>,
                       <<"draft", "structured", "refine">> }
    /\ pc = "draft" <=> calls = <<>>
    /\ pc \in {"drafted", "structured"} => C13_Kinds = <<"draft">>
    /\ pc \in {"generated", "refine"} =>
           C13_Kinds \in { <<"draft">>, <<"draft", "structured">> }
    /\ pc = "done" =>
           /\ C13_Kinds \in { <<"draft", "refine">>, <<"draft", "structured", "refine">> }
           /\ \A k \in 1..Len(calls) : ~CallRaised(calls[k])
    /\ \A k \in 1..(Len(calls) - 1) : ~CallRaised(calls[k])
    /\ pc = "error" <=> (calls # <<>> /\ CallRaised(last(calls)))
    /\ (pc = "generated" /\ FellBack) =>
           frames = structured_frames(response, prompt, num_frames)
    /\ (pc = "generated" /\ ~FellBack) => (frames = draft /\ Len(draft) >= num_frames)

\* C13, one step of a process_prompt run: a call is made only at its program
\* point and is appended to the calls made; after the draft parse the
\* structured pass is entered if and only if fewer than N frames were
\* accepted, and then the draft is dropped, otherwise the draft is returned
\* without a call; refine is entered only from the return of generate
C13_Step ==
    /\ calls' # calls =>
           /\ Len(calls') = Len(calls) + 1
           /\ SubSeq(calls', 1, Len(calls)) = calls
           /\ last(calls').call = (CASE pc = "draft" -> "draft"
                                     [] pc = "structured" -> "structured"
                                     [] pc = "refine" -> "refine"
                                     [] OTHER -> "none")
    /\ pc \in {"draft", "structured", "refine"} => calls' # calls
    /\ pc = "drafted" =>
           /\ calls' = calls
           /\ IF Len(draft) < num_frames
              THEN pc' = "structured" /\ draft' = <<>> /\ frames' = frames
              ELSE pc' = "generated" /\ frames' = draft
    /\ pc' = "structured" => (pc = "drafted" /\ Len(draft) < num_frames)
    /\ pc = "structured" => pc' \in {"generated", "error"}
    /\ pc = "generated" => (pc' = "refine" /\ calls' = calls /\ frames' = frames)
    /\ pc' = "refine" => pc = "generated"
    /\ pc = "refine" => (pc' \in {"done", "error"} /\ frames' = frames)
    /\ pc \in {"done", "error"} => pc' = pc

\* C13: within one process_prompt call the completion capability is invoked
\* sequentially in the order draft, structured, refine: the draft call exactly
\* once; the structured call exactly once if and only if the draft parse
\* accepted fewer than N frames, the draft frames then being dropped, and not
\* at all otherwise; the refine call exactly once and only after generate has
\* returned.  No call is issued again: a run that returns has made 2 or 3
\* calls and a call that fails is the last call made.
C13_CallsSequential == []C13_CallsInOrder /\ [][C13_Step]_vars

\* process_prompt returned after three calls: draft, structured, refine
C13_Witness ==
    /\ op = "process_prompt" /\ pc = "done"
    /\ C13_Kinds = <<"draft", "structured", "refine">>
    /\ Len(refined_frames) = num_frames

====
